---- MODULE Spec2Model ----
(***************************************************************************)
(* A model of the video editor component (VideoEditor.tsx and its          *)
(* revisions under src/unnamed): the zoom-effect timeline, the effect      *)
(* interpolator used by the preview, the per-frame lookup used by the      *)
(* canvas export, and the export run state machine (handleExport, the      *)
(* engine loader, the reset timers and the error card).                    *)
(*                                                                         *)
(* Time is counted in ticks of 0.05 s, so that "within 0.1 s" and "the     *)
(* final second" are both whole numbers of ticks.  Interpolated values are *)
(* kept as numerators over OneSecond: a blend factor is p / OneSecond with *)
(* p a whole number of ticks, so every blended value is exact.             *)
(***************************************************************************)
EXTENDS Integers, Sequences, FiniteSets, TLC

VARIABLES
    \* timeline (React state of the component)
    zoomEffects, selectedZoomId, currentTime, duration, trimSegments,
    cutPoints, videoFile, mediaDuration, clock,
    \* the export's own source time (video.currentTime inside processFrame)
    frameTime,
    \* export state
    revision, isExporting, exportProgress, exportError, isFFmpegLoading,
    ffmpeg, runs, timers,
    \* the files in the engine's virtual filesystem
    engineFiles,
    \* the filter graph the last synthesis returned
    filterGraph,
    \* the engine instances created and loaded so far
    enginesLoaded,
    \* the shared media element: video.currentTime, a seek in progress,
    \* playing; and the component's isPlaying
    videoPos, videoSeeking, videoPlaying, isPlaying,
    \* the frame-render export: the render loop, the frames drawn so far
    \* and the MediaRecorder's state
    renderLoop, frames, recorder

timelineVars == <<zoomEffects, selectedZoomId, currentTime, duration,
                  trimSegments, cutPoints, videoFile, mediaDuration, clock>>
exportVars == <<revision, isExporting, exportProgress, exportError,
                isFFmpegLoading, ffmpeg, runs, timers, engineFiles>>
mediaVars == <<videoPos, videoSeeking, videoPlaying, isPlaying>>
canvasVars == <<renderLoop, frames, recorder>>
engineVars == <<filterGraph, enginesLoaded>>
pipelineVars == <<engineVars, mediaVars, canvasVars>>
renderVars == <<frameTime, pipelineVars>>
vars == <<timelineVars, renderVars, exportVars>>

----------------------------------------------------------------------------
(* Program constants, in ticks and percent.                                *)

\* the "1" of activeEffect.endTime - 1: one second
OneSecond == 20
\* the 0.1 of Math.abs(effect.startTime - activeEffect.endTime) < 0.1
TransitionGap == 2
\* the 5 of Math.min(currentTime + 5, duration)
DefaultSpan == 100
\* zoomLevel: 150
DefaultZoomLevel == 150
\* position: { x: 50, y: 50 }
DefaultPosition == 50
\* useState<string | null>(null): no effect selected
NoSelection == 0
\* the zoom level of the untransformed picture (transform: 'none')
IdentityZoomLevel == 100

----------------------------------------------------------------------------
(* Small helpers.                                                          *)

Min2(a, b) == IF a <= b THEN a ELSE b
Max2(a, b) == IF a >= b THEN a ELSE b
AbsDiff(a, b) == IF a >= b THEN a - b ELSE b - a
MinOf(S) == CHOOSE m \in S : \A n \in S : m <= n

\* every sequence over S of length at most n
SeqsUpTo(S, n) == UNION {[1..k -> S] : k \in 0..n}

----------------------------------------------------------------------------
(* The effect interpolator.                                                *)

\* a containment test that forgets the upper bound
ContainsFromStart(effect, t) == t >= effect.startTime

\* effect => currentTime >= effect.startTime && currentTime <= effect.endTime
Contains(effect, t) == t >= effect.startTime /\ t <= effect.endTime

\* a lookup that keeps the last match instead of the first
ActiveIndexLast(effects, t) ==
    LET S == {i \in 1..Len(effects) : Contains(effects[i], t)}
    IN  IF S = {} THEN 0 ELSE CHOOSE m \in S : \A n \in S : m >= n

\* Array.prototype.find with the containment callback: the index of the
\* first stored effect containing t, 0 when find returns undefined
ActiveIndex(effects, t) ==
    LET S == {i \in 1..Len(effects) : Contains(effects[i], t)}
    IN  IF S = {} THEN 0 ELSE MinOf(S)

\* a successor test with <= 0.1 in place of < 0.1
IsSuccessorInclusive(effect, active) ==
    /\ AbsDiff(effect.startTime, active.endTime) <= TransitionGap
    /\ effect.id # active.id

\* Math.abs(effect.startTime - activeEffect.endTime) < 0.1
\*   && effect.id !== activeEffect.id
IsSuccessor(effect, active) ==
    /\ AbsDiff(effect.startTime, active.endTime) < TransitionGap
    /\ effect.id # active.id

\* the second find: the first stored effect that qualifies as successor
NextIndex(effects, active) ==
    LET S == {i \in 1..Len(effects) : IsSuccessor(effects[i], active)}
    IN  IF S = {} THEN 0 ELSE MinOf(S)

\* a progress measured from the effect's end instead of one second before
ProgressFromEnd(active, t) ==
    Max2(0, Min2(OneSecond, t - active.endTime))

\* progress = Math.max(0, Math.min(1, (currentTime - (endTime - 1)) / 1)),
\* as a numerator over OneSecond
Progress(active, t) ==
    Max2(0, Min2(OneSecond, t - (active.endTime - OneSecond)))

\* a + (b - a) * progress, as a numerator over OneSecond
Lerp(a, b, p) == a * OneSecond + (b - a) * p

\* what a lookup that found nothing yields (null / undefined)
NoZoom == [found |-> FALSE, zoomLevel |-> 0, x |-> 0, y |-> 0]

\* an effect's own zoomLevel and position, as numerators over OneSecond
OwnZoom(effect) ==
    [found |-> TRUE,
     zoomLevel |-> effect.zoomLevel * OneSecond,
     x |-> effect.position.x * OneSecond,
     y |-> effect.position.y * OneSecond]

\* whether the interpolator blends: nextEffect && currentTime > endTime - 1
Blends(effects, active, t) ==
    /\ NextIndex(effects, active) # 0
    /\ t > active.endTime - OneSecond

\* getCurrentZoomEffect of the revisions that interpolate
getCurrentZoomEffect(effects, t) ==
    IF ActiveIndex(effects, t) = 0 THEN NoZoom
    ELSE LET active == effects[ActiveIndex(effects, t)]
         IN  IF Blends(effects, active, t)
             THEN LET next == effects[NextIndex(effects, active)]
                      p == Progress(active, t)
                  IN  [found |-> TRUE,
                       zoomLevel |-> Lerp(active.zoomLevel, next.zoomLevel, p),
                       x |-> Lerp(active.position.x, next.position.x, p),
                       y |-> Lerp(active.position.y, next.position.y, p)]
             ELSE OwnZoom(active)

\* getCurrentZoomForTime of the canvas export: a plain find, no blending
getCurrentZoomForTime(effects, t) ==
    IF ActiveIndex(effects, t) = 0 THEN NoZoom
    ELSE OwnZoom(effects[ActiveIndex(effects, t)])

\* const currentZoom = getCurrentZoomEffect(), evaluated at every render
currentZoom == getCurrentZoomEffect(zoomEffects, currentTime)

\* the style of the <video> element: scale(zoomLevel / 100) about
\* position.x% position.y%, or 'none' about 'center center'
PreviewTransform(zoom) ==
    IF zoom.found
    THEN [zoomLevel |-> zoom.zoomLevel, x |-> zoom.x, y |-> zoom.y]
    ELSE [zoomLevel |-> IdentityZoomLevel * OneSecond,
          x |-> DefaultPosition * OneSecond,
          y |-> DefaultPosition * OneSecond]

\* processFrame: scale by zoomLevel / 100 about the position when a zoom is
\* found, a plain drawImage otherwise
FrameTransform(zoom) ==
    IF zoom.found
    THEN [zoomLevel |-> zoom.zoomLevel, x |-> zoom.x, y |-> zoom.y]
    ELSE [zoomLevel |-> IdentityZoomLevel * OneSecond,
          x |-> DefaultPosition * OneSecond,
          y |-> DefaultPosition * OneSecond]

\* the transform the canvas export draws for the frame at frameTime
frameZoom == getCurrentZoomForTime(zoomEffects, frameTime)

----------------------------------------------------------------------------
(* Initial values of the state the component constructs (useState).        *)

\* the revisions of the component that the export model covers
Revisions == {"main", "p1r1", "p0r3"}

InitTimeline ==
    /\ zoomEffects = <<>>
    /\ selectedZoomId = NoSelection
    /\ currentTime = 0
    /\ duration = 0
    /\ trimSegments = <<>>
    /\ cutPoints = <<>>
    /\ videoFile = 0
    /\ mediaDuration = 0
    /\ clock = 1

InitExport ==
    /\ isExporting = FALSE
    /\ exportProgress = 0
    /\ exportError = FALSE
    /\ isFFmpegLoading = FALSE
    /\ ffmpeg = FALSE
    /\ runs = <<>>
    /\ timers = {}
    /\ engineFiles = {}

\* what a synthesis that returns '' yields: no expression at all
NoGraph == [parts |-> <<>>, final |-> "none", inputs |-> <<>>, n |-> 0]

\* no onseeked handler assigned
NoHandler == -1

\* the render loop before any export: currentExportTime / frameCount, the
\* frame time closed over by video.onseeked, the pending
\* setTimeout(renderFrame) calls
IdleLoop == [pc |-> "idle", time |-> 0, handler |-> NoHandler, timers |-> 0]

InitRender ==
    /\ frameTime = 0
    /\ filterGraph = NoGraph
    /\ enginesLoaded = 0
    /\ videoPos = 0
    /\ videoSeeking = FALSE
    /\ videoPlaying = FALSE
    /\ isPlaying = FALSE
    /\ renderLoop = IdleLoop
    /\ frames = <<>>
    /\ recorder = "inactive"

----------------------------------------------------------------------------
(* SpecInterp: the interpolator as a pure function.  The effect list is    *)
(* drawn from a bounded universe and the preview and the export's          *)
(* processFrame are both evaluated at each query time.                     *)

\* the longest effect list drawn
MaxInterpEffects == 3

\* [startTime, endTime] pairs: an effect ending at 30, and effects that
\* start 0.05 s before, at, and 0.1 s after that end
InterpSpans == {<<0, 30>>, <<29, 50>>, <<30, 50>>, <<32, 50>>}
InterpStyles == {<<150, 50, 50>>, <<200, 20, 80>>}
\* how ids are dealt to the stored positions: all distinct, or repeated
\* (two adds at one clock reading share an id)
InterpIdModes == {"distinct", "pairs", "alternate"}
InterpTimes == {5, 10, 20, 29, 30, 31, 40, 55}
InterpDuration == 3 * OneSecond

InterpId(mode, i) ==
    CASE mode = "distinct" -> i
      [] mode = "pairs" -> (i + 1) \div 2
      [] OTHER -> ((i - 1) % 2) + 1

InterpEffect(mode, i, sp, st) ==
    [id |-> InterpId(mode, i), startTime |-> sp[1], endTime |-> sp[2],
     zoomLevel |-> st[1], position |-> [x |-> st[2], y |-> st[3]],
     name |-> i]

InterpLists ==
    {[i \in 1..Len(body) |-> InterpEffect(mode, i, body[i][1], body[i][2])] :
        body \in SeqsUpTo(InterpSpans \X InterpStyles, MaxInterpEffects),
        mode \in InterpIdModes}

InitInterp ==
    /\ zoomEffects \in InterpLists
    /\ selectedZoomId = NoSelection
    /\ currentTime = 0
    /\ duration = InterpDuration
    /\ trimSegments = <<>>
    /\ cutPoints = <<>>
    /\ videoFile = 1
    /\ mediaDuration = InterpDuration
    /\ clock = 1
    /\ InitRender
    /\ revision = "p0r3"
    /\ InitExport

\* the playhead reaches t (timeupdate / handleSeek) and the component
\* renders; the canvas export's processFrame runs with its video at t
RenderAt(t) ==
    /\ currentTime' = t
    /\ frameTime' = t
    /\ UNCHANGED pipelineVars
    /\ UNCHANGED <<zoomEffects, selectedZoomId, duration, trimSegments,
                   cutPoints, videoFile, mediaDuration, clock, exportVars>>

NextInterp == \E t \in InterpTimes : RenderAt(t)

SpecInterp == InitInterp /\ [][NextInterp]_vars

----------------------------------------------------------------------------
(* Vocabulary of the claims about the interpolator, stated on the stored   *)
(* fields only.                                                            *)

InRange(e, t) == e.startTime <= t /\ t <= e.endTime
StrictlyInside(e, t) == e.startTime < t /\ t < e.endTime
StartsNear(b, a) ==
    b.startTime - a.endTime < TransitionGap /\ a.endTime - b.startTime < TransitionGap
Indices == 1..Len(zoomEffects)
DistinctIds ==
    \A i, j \in Indices : i # j => zoomEffects[i].id # zoomEffects[j].id
Identity ==
    [zoomLevel |-> IdentityZoomLevel * OneSecond,
     x |-> DefaultPosition * OneSecond, y |-> DefaultPosition * OneSecond]
\* twice the value halfway between a's and b's parameters, over OneSecond
TwiceHalfway(a, b) ==
    [zoomLevel |-> (a.zoomLevel + b.zoomLevel) * OneSecond,
     x |-> (a.position.x + b.position.x) * OneSecond,
     y |-> (a.position.y + b.position.y) * OneSecond]
Twice(z) == [zoomLevel |-> 2 * z.zoomLevel, x |-> 2 * z.x, y |-> 2 * z.y]
HalfSecond == OneSecond \div 2

\* C1: the transform the canvas export draws for the frame at time t equals
\* the transform the preview shows at t, for every effect list and every t.
C1_ExportMatchesPreview ==
    frameTime = currentTime =>
        FrameTransform(frameZoom) = PreviewTransform(currentZoom)

\* C6: of two stored effects that both contain t, the later one is never
\* the candidate: the candidate is the first stored effect containing t,
\* whatever the effects' ranges.
C6_FirstStoredWins ==
    \A i, j \in Indices :
        (i < j /\ InRange(zoomEffects[i], currentTime)
               /\ InRange(zoomEffects[j], currentTime)) =>
            /\ ActiveIndex(zoomEffects, currentTime) \in 1..i
            /\ InRange(zoomEffects[ActiveIndex(zoomEffects, currentTime)],
                       currentTime)
            /\ \A k \in 1..(ActiveIndex(zoomEffects, currentTime) - 1) :
                   ~InRange(zoomEffects[k], currentTime)
            /\ getCurrentZoomForTime(zoomEffects, currentTime) =
                   OwnZoom(zoomEffects[ActiveIndex(zoomEffects, currentTime)])

\* C6 witness: two effects with different ranges both contain t and the
\* candidate is the first of them although the second starts earlier.
C6_Witness ==
    /\ Len(zoomEffects) = 2
    /\ InRange(zoomEffects[1], currentTime)
    /\ InRange(zoomEffects[2], currentTime)
    /\ zoomEffects[2].startTime < zoomEffects[1].startTime
    /\ zoomEffects[1].zoomLevel # zoomEffects[2].zoomLevel
    /\ ActiveIndex(zoomEffects, currentTime) = 1

\* C7: at a time outside every effect's [startTime, endTime] the
\* interpolator yields no effect and the preview applies the identity
\* transform (zoom level 100, centered).
C7_IdentityOutside ==
    (\A i \in Indices : ~InRange(zoomEffects[i], currentTime)) =>
        /\ ~currentZoom.found
        /\ PreviewTransform(currentZoom) = Identity

\* C7 witness: a non-empty list, the playhead in the gap between two
\* effects, and nothing active.
C7_Witness ==
    /\ Len(zoomEffects) >= 2
    /\ \A i \in Indices : ~InRange(zoomEffects[i], currentTime)
    /\ \E i, j \in Indices :
           zoomEffects[i].endTime < currentTime
           /\ currentTime < zoomEffects[j].startTime
    /\ ~currentZoom.found

\* C8 (as claimed): A ends at T, B starts within 0.1 s of T, t = T - 0.5:
\* the result is halfway between A's and B's values, whatever the stored
\* order and whatever other effects are present (stated here for lists
\* whose ids are pairwise distinct only).
C8_HalfwayAnyList ==
    \A a, b \in Indices :
        (a # b /\ DistinctIds
               /\ StartsNear(zoomEffects[b], zoomEffects[a])
               /\ currentTime = zoomEffects[a].endTime - HalfSecond) =>
            /\ currentZoom.found
            /\ Twice(currentZoom) = TwiceHalfway(zoomEffects[a], zoomEffects[b])

\* C8 (amended): the same, provided A is the first stored effect whose
\* range contains t and B is the first stored effect, with an id other
\* than A's, that starts within 0.1 s of T.
C8_HalfwayFirstMatches ==
    \A a, b \in Indices :
        (/\ a # b
         /\ StartsNear(zoomEffects[b], zoomEffects[a])
         /\ currentTime = zoomEffects[a].endTime - HalfSecond
         /\ InRange(zoomEffects[a], currentTime)
         /\ \A k \in 1..(a - 1) : ~InRange(zoomEffects[k], currentTime)
         /\ zoomEffects[b].id # zoomEffects[a].id
         /\ \A k \in 1..(b - 1) :
                ~(StartsNear(zoomEffects[k], zoomEffects[a])
                  /\ zoomEffects[k].id # zoomEffects[a].id)) =>
            /\ currentZoom.found
            /\ Twice(currentZoom) = TwiceHalfway(zoomEffects[a], zoomEffects[b])

\* C8 witness: B stored before A, a third effect present, B starts 0.05 s
\* before A ends, and the result at T - 0.5 is strictly between the two.
C8_Witness ==
    /\ Len(zoomEffects) = 3
    /\ currentTime = zoomEffects[2].endTime - HalfSecond
    /\ InRange(zoomEffects[2], currentTime)
    /\ ~InRange(zoomEffects[1], currentTime)
    /\ ~InRange(zoomEffects[3], currentTime)
    /\ StartsNear(zoomEffects[1], zoomEffects[2])
    /\ zoomEffects[1].startTime # zoomEffects[2].endTime
    /\ zoomEffects[1].id # zoomEffects[2].id
    /\ zoomEffects[1].zoomLevel # zoomEffects[2].zoomLevel
    /\ Twice(currentZoom) = TwiceHalfway(zoomEffects[2], zoomEffects[1])

\* an effect whose range shares no interior point with any other effect's
NonOverlapping(i) ==
    \A j \in Indices \ {i} :
        \/ zoomEffects[j].startTime >= zoomEffects[i].endTime
        \/ zoomEffects[j].endTime <= zoomEffects[i].startTime

\* C9: at a time strictly inside a non-overlapping effect's range that is
\* more than one second before its end, or when no other effect starts
\* within 0.1 s of its end, the result is that effect's own zoomLevel and
\* position.
C9_OwnValuesUnblended ==
    \A i \in Indices :
        (/\ StrictlyInside(zoomEffects[i], currentTime)
         /\ NonOverlapping(i)
         /\ \/ currentTime < zoomEffects[i].endTime - OneSecond
            \/ \A j \in Indices \ {i} :
                   ~StartsNear(zoomEffects[j], zoomEffects[i])) =>
            currentZoom =
                [found |-> TRUE,
                 zoomLevel |-> zoomEffects[i].zoomLevel * OneSecond,
                 x |-> zoomEffects[i].position.x * OneSecond,
                 y |-> zoomEffects[i].position.y * OneSecond]

\* C9 witness: the effect has a qualifying successor with other values and
\* the playhead is more than a second before the effect's end.
C9_Witness ==
    /\ Len(zoomEffects) = 2
    /\ StrictlyInside(zoomEffects[1], currentTime)
    /\ NonOverlapping(1)
    /\ currentTime < zoomEffects[1].endTime - OneSecond
    /\ StartsNear(zoomEffects[2], zoomEffects[1])
    /\ zoomEffects[2].id # zoomEffects[1].id
    /\ zoomEffects[2].zoomLevel # zoomEffects[1].zoomLevel
    /\ currentZoom.zoomLevel = zoomEffects[1].zoomLevel * OneSecond

----------------------------------------------------------------------------
(* SpecTimeline: the timeline handlers of the component, driven from the   *)
(* freshly constructed state.  The wall clock (Date.now) is a counter that *)
(* may or may not advance between two handler calls.                       *)

\* the most effects, trim segments and cut points the timeline is grown to
MaxEffects == 2
MaxTrims == 1
MaxCuts == 1
\* the last reading of the wall clock
MaxClock == 2
\* the number of files imported in one session
MaxFiles == 2

\* durations of the imported media, and the times the playhead is put at
MediaDurations == {3 * OneSecond, 8 * OneSecond}
SeekTimes == {0, 4 * OneSecond, 8 * OneSecond}
\* the [start, end] pairs and the times the timeline hands to handleTrim and
\* handleCut
TrimChoices == {<<OneSecond, 4 * OneSecond>>}
CutTimes == {4 * OneSecond}

\* the partial field sets handed to handleUpdateZoomEffect
UpdateChoices ==
    {[zoomLevel |-> 200], [endTime |-> 4 * OneSecond]}
        \cup {[id |-> k] : k \in 1..MaxClock}

\* a merge that adds a given zoomLevel to the stored one
MergeAccumulating(effect, updates) ==
    [f \in DOMAIN effect |->
        IF f \in DOMAIN updates
        THEN IF f = "zoomLevel" THEN effect[f] + updates[f] ELSE updates[f]
        ELSE effect[f]]

\* { ...effect, ...updates }
Merge(effect, updates) ==
    [f \in DOMAIN effect |->
        IF f \in DOMAIN updates THEN updates[f] ELSE effect[f]]

\* prev.filter(effect => effect.id !== id)
RECURSIVE WithoutId(_, _)
WithoutId(effects, id) ==
    IF effects = <<>> THEN <<>>
    ELSE IF Head(effects).id = id THEN WithoutId(Tail(effects), id)
         ELSE <<Head(effects)>> \o WithoutId(Tail(effects), id)

\* event.target.files?.[0] when the change event carries no file
NoFile == 0

\* an import that forgets to clear the cut points
handleFileImportKeepingCuts(file) ==
    IF file = NoFile THEN UNCHANGED vars
    ELSE /\ videoFile < MaxFiles
         /\ videoFile' = videoFile + 1
         /\ mediaDuration' = file
         /\ currentTime' = 0
         /\ zoomEffects' = <<>>
         /\ selectedZoomId' = NoSelection
         /\ trimSegments' = <<>>
         /\ exportError' = FALSE
         /\ UNCHANGED <<cutPoints, duration, clock, renderVars, revision,
                        isExporting, exportProgress, isFFmpegLoading, ffmpeg,
                        runs, timers, engineFiles>>

\* the file input's change event; a file is given by its media's duration
handleFileImport(file) ==
    IF file = NoFile THEN UNCHANGED vars
    ELSE /\ videoFile < MaxFiles
         /\ videoFile' = videoFile + 1
         /\ mediaDuration' = file
         /\ currentTime' = 0
         /\ zoomEffects' = <<>>
         /\ selectedZoomId' = NoSelection
         /\ trimSegments' = <<>>
         /\ cutPoints' = <<>>
         /\ exportError' = FALSE
         /\ UNCHANGED <<duration, clock, renderVars, revision, isExporting,
                        exportProgress, isFFmpegLoading, ffmpeg, runs, timers,
                        engineFiles>>

\* the video element's loadedmetadata event
handleLoadedMetadata ==
    /\ videoFile # 0
    /\ duration' = mediaDuration
    /\ UNCHANGED <<zoomEffects, selectedZoomId, currentTime, trimSegments,
                   cutPoints, videoFile, mediaDuration, clock, renderVars,
                   exportVars>>

\* the video element's timeupdate event, the element playing at t
handleTimeUpdate(t) ==
    /\ videoFile # 0
    /\ t <= mediaDuration
    /\ currentTime' = t
    /\ UNCHANGED <<zoomEffects, selectedZoomId, duration, trimSegments,
                   cutPoints, videoFile, mediaDuration, clock, renderVars,
                   exportVars>>

\* the seek controls, which offer the times up to duration
handleSeek(t) ==
    /\ videoFile # 0
    /\ t <= duration
    /\ currentTime' = t
    /\ UNCHANGED <<zoomEffects, selectedZoomId, duration, trimSegments,
                   cutPoints, videoFile, mediaDuration, clock, renderVars,
                   exportVars>>

\* the effect handleAddZoomEffect builds: id from Date.now(), the default
\* span clamped to duration, name from the list's length
newZoomEffect ==
    [id |-> clock,
     startTime |-> currentTime,
     endTime |-> Min2(currentTime + DefaultSpan, duration),
     zoomLevel |-> DefaultZoomLevel,
     position |-> [x |-> DefaultPosition, y |-> DefaultPosition],
     name |-> Len(zoomEffects) + 1]

handleAddZoomEffect ==
    /\ Len(zoomEffects) < MaxEffects
    /\ zoomEffects' = Append(zoomEffects, newZoomEffect)
    /\ selectedZoomId' = newZoomEffect.id
    /\ UNCHANGED <<currentTime, duration, trimSegments, cutPoints, videoFile,
                   mediaDuration, clock, renderVars, exportVars>>

\* prev.map(effect => effect.id === id ? { ...effect, ...updates } : effect)
UpdatedEffects(effects, id, updates) ==
    [i \in 1..Len(effects) |->
        IF effects[i].id = id THEN Merge(effects[i], updates) ELSE effects[i]]

handleUpdateZoomEffect(id, updates) ==
    /\ zoomEffects' = UpdatedEffects(zoomEffects, id, updates)
    /\ UNCHANGED <<selectedZoomId, currentTime, duration, trimSegments,
                   cutPoints, videoFile, mediaDuration, clock, renderVars,
                   exportVars>>

handleDeleteZoomEffect(id) ==
    /\ zoomEffects' = WithoutId(zoomEffects, id)
    /\ selectedZoomId' = IF selectedZoomId = id THEN NoSelection
                         ELSE selectedZoomId
    /\ UNCHANGED <<currentTime, duration, trimSegments, cutPoints, videoFile,
                   mediaDuration, clock, renderVars, exportVars>>

\* onSelectZoom={setSelectedZoomId}: the controls select one of the effects
\* they list, or nothing
setSelectedZoomId(id) ==
    /\ id = NoSelection \/ \E i \in 1..Len(zoomEffects) : zoomEffects[i].id = id
    /\ selectedZoomId' = id
    /\ UNCHANGED <<zoomEffects, currentTime, duration, trimSegments,
                   cutPoints, videoFile, mediaDuration, clock, renderVars,
                   exportVars>>

handleTrim(startTime, endTime) ==
    /\ videoFile # 0
    /\ Len(trimSegments) < MaxTrims
    /\ trimSegments' = Append(trimSegments, [start |-> startTime, end |-> endTime])
    /\ UNCHANGED <<zoomEffects, selectedZoomId, currentTime, duration,
                   cutPoints, videoFile, mediaDuration, clock, renderVars,
                   exportVars>>

handleCut(cutTime) ==
    /\ videoFile # 0
    /\ Len(cutPoints) < MaxCuts
    /\ cutPoints' = Append(cutPoints, cutTime)
    /\ UNCHANGED <<zoomEffects, selectedZoomId, currentTime, duration,
                   trimSegments, videoFile, mediaDuration, clock, renderVars,
                   exportVars>>

\* the wall clock read by Date.now() advances
Tick ==
    /\ clock < MaxClock
    /\ clock' = clock + 1
    /\ UNCHANGED <<zoomEffects, selectedZoomId, currentTime, duration,
                   trimSegments, cutPoints, videoFile, mediaDuration,
                   renderVars, exportVars>>

InitTimelineSpec ==
    /\ InitTimeline
    /\ InitRender
    /\ revision = "main"
    /\ InitExport

NextTimeline ==
    \/ \E file \in MediaDurations \cup {NoFile} : handleFileImport(file)
    \/ handleLoadedMetadata
    \/ \E t \in SeekTimes : handleTimeUpdate(t)
    \/ \E t \in SeekTimes : handleSeek(t)
    \/ handleAddZoomEffect
    \/ \E id \in 1..MaxClock, updates \in UpdateChoices :
           handleUpdateZoomEffect(id, updates)
    \/ \E id \in 1..MaxClock : handleDeleteZoomEffect(id)
    \/ \E id \in 0..MaxClock : setSelectedZoomId(id)
    \/ \E tr \in TrimChoices : handleTrim(tr[1], tr[2])
    \/ \E t \in CutTimes : handleCut(t)
    \/ Tick

SpecTimeline == InitTimelineSpec /\ [][NextTimeline]_vars

\* C10: no two effects in the timeline share an id, and an effect keeps its
\* id from creation to deletion, under any sequence of adds, updates with
\* any partial fields and deletes, two adds at one clock reading included.
\* (A step that keeps the list's length is an update or leaves the list
\* alone, so the effect at each position is the same effect before and
\* after it.)
C10_IdsUniqueAndStable ==
    [][/\ \A i, j \in 1..Len(zoomEffects') :
              i # j => zoomEffects'[i].id # zoomEffects'[j].id
       /\ (Len(zoomEffects') = Len(zoomEffects)) =>
              \A i \in 1..Len(zoomEffects) :
                  zoomEffects'[i].id = zoomEffects[i].id]_vars

----------------------------------------------------------------------------
(* SpecExport: the export run state machine.  Three revisions of the       *)
(* component are covered: "main" (src/components/VideoEditor.tsx), "p1r1"  *)
(* (the first revision in part_001: the same handler with other progress   *)
(* marks and a Try Again button on the error card) and "p0r3" (the third   *)
(* revision in part_000: the engine tried first, with fallbacks).  A run   *)
(* is one call of handleExport; it rests at its await points, where the    *)
(* awaited promise resolves or rejects.  The values a run's closure        *)
(* captured at the click (exportError, ffmpeg, the two counts) are kept in *)
(* the run.  Dynamic imports are await points like any other.              *)

\* the number of export runs started in one session
MaxRuns == 3

\* the await points at which a run has not yet reported a terminal status
InFlight ==
    {"fetching", "importing", "loading", "writing", "exec", "reading",
     "deleting", "canvas"}

\* the revisions whose handleExport is one engine command with an error card
ErrorCardRevisions == {"main", "p1r1"}

\* what readFile returns for the output file: no bytes, or some
Outputs == {"empty", "data"}

\* the progress events the engine emits, in halves of the whole
ProgressEvents == 0..2

\* a progress mark that differs between main and p1r1
Mark(inMain, inP1r1) == IF revision = "main" THEN inMain ELSE inP1r1

\* what the single command of main / p1r1 does, by the two branches
\* if (trimSegments.length > 0) / if (zoomEffects.length > 0)
PlanFor(nz, nt) ==
    IF nz > 0 THEN "zoom" ELSE IF nt > 0 THEN "trim" ELSE "copy"

\* the segments the engine command extracts: const { start, end } =
\* trimSegments[0] under if (trimSegments.length > 0)
PlanSegments(trims) == IF Len(trims) > 0 THEN <<trims[1]>> ELSE <<>>

\* the run a click starts
NewRun(pc) ==
    [pc |-> pc,
     errAtClick |-> exportError,
     loaded |-> ffmpeg,
     nz |-> Len(zoomEffects),
     nt |-> Len(trimSegments),
     trims |-> trimSegments,
     segments |-> <<>>,
     output |-> "none",
     strategy |-> "none",
     engineFailed |-> FALSE,
     delivered |-> "none"]

RunIds == 1..Len(runs)

\* ---- main and p1r1 ----

\* the Export button (enabled: a file, not exporting, engine not loading);
\* runs up to the first await, inside loadFFmpeg when no engine is held
handleExport ==
    /\ revision \in ErrorCardRevisions
    /\ videoFile # 0 /\ ~isExporting /\ ~isFFmpegLoading
    /\ Len(runs) < MaxRuns
    /\ isExporting' = TRUE
    /\ exportError' = FALSE
    /\ exportProgress' = IF ffmpeg THEN 0 ELSE 5
    /\ isFFmpegLoading' = ~ffmpeg
    /\ runs' = Append(runs, NewRun("importing"))
    /\ UNCHANGED <<timelineVars, renderVars, engineFiles, revision, ffmpeg, timers>>

\* an awaited import resolves: loadFFmpeg goes on to load the core, or
\* handleExport (engine in hand) goes on to write the input file
importResolved(i) ==
    /\ revision \in ErrorCardRevisions
    /\ runs[i].pc = "importing"
    /\ IF runs[i].loaded
       THEN /\ exportProgress' = Mark(15, 30)
            /\ runs' = [runs EXCEPT ![i].pc = "writing"]
       ELSE /\ exportProgress' = Mark(10, 15)
            /\ runs' = [runs EXCEPT ![i].pc = "loading"]
    /\ UNCHANGED <<timelineVars, renderVars, engineFiles, revision, isExporting,
                   exportError, isFFmpegLoading, ffmpeg, timers>>

\* ffmpegInstance.load resolves: loadFFmpeg returns the instance
ffmpegLoaded(i) ==
    /\ revision \in ErrorCardRevisions
    /\ runs[i].pc = "loading"
    /\ ffmpeg' = TRUE
    /\ isFFmpegLoading' = FALSE
    /\ exportProgress' = Mark(exportProgress, 25)
    /\ runs' = [runs EXCEPT ![i].pc = "importing", ![i].loaded = TRUE]
    /\ UNCHANGED <<timelineVars, renderVars, engineFiles, revision, isExporting,
                   exportError, timers>>

\* writeFile resolves: the command is built and exec is called
inputWritten(i) ==
    /\ revision \in ErrorCardRevisions
    /\ runs[i].pc = "writing"
    /\ exportProgress' = Mark(25, 40)
    /\ runs' = [runs EXCEPT ![i].pc = "exec",
                            ![i].strategy = PlanFor(runs[i].nz, runs[i].nt),
                            ![i].segments = PlanSegments(runs[i].trims)]
    /\ engineFiles' = engineFiles \cup {"input"}
    /\ UNCHANGED <<timelineVars, renderVars, revision, isExporting,
                   exportError, isFFmpegLoading, ffmpeg, timers>>

\* the engine's progress listener, installed by loadFFmpeg
onProgress(i, half) ==
    /\ revision \in ErrorCardRevisions
    /\ runs[i].pc = "exec"
    /\ exportProgress' = Min2(Mark(20 + 35 * half, 30 + 30 * half), 90)
    /\ UNCHANGED <<timelineVars, renderVars, engineFiles, revision, isExporting,
                   exportError, isFFmpegLoading, ffmpeg, runs, timers>>

\* exec resolves
execDone(i) ==
    /\ revision \in ErrorCardRevisions
    /\ runs[i].pc = "exec"
    /\ exportProgress' = 92
    /\ runs' = [runs EXCEPT ![i].pc = "reading"]
    /\ engineFiles' = engineFiles \cup {"output"}
    /\ UNCHANGED <<timelineVars, renderVars, revision, isExporting,
                   exportError, isFFmpegLoading, ffmpeg, timers>>

\* readFile resolves and triggerDownload hands the file over: the success
\* status is set and the engine's files are deleted
outputRead(i, out) ==
    /\ revision \in ErrorCardRevisions
    /\ runs[i].pc = "reading"
    /\ exportProgress' = 100
    /\ runs' = [runs EXCEPT ![i].pc = "cleanup", ![i].output = out,
                            ![i].delivered = "engine"]
    /\ UNCHANGED <<timelineVars, renderVars, engineFiles, revision, isExporting,
                   exportError, isFFmpegLoading, ffmpeg, timers>>

\* the deletes settle (a rejection is only logged); the reset timer is set
cleanupDone(i) ==
    /\ revision \in ErrorCardRevisions
    /\ runs[i].pc = "cleanup"
    /\ runs' = [runs EXCEPT ![i].pc = "succeeded"]
    /\ timers' = timers \cup {i}
    /\ engineFiles' = engineFiles \ {"input", "output"}
    /\ UNCHANGED <<timelineVars, renderVars, revision, isExporting,
                   exportProgress, exportError, isFFmpegLoading, ffmpeg>>

\* an awaited promise rejects: loadFFmpeg's catch when the engine was being
\* loaded, then handleExport's catch; the reset timer is set
exportFailed(i) ==
    /\ revision \in ErrorCardRevisions
    /\ runs[i].pc \in {"importing", "loading", "writing", "exec", "reading"}
    /\ isFFmpegLoading' = IF runs[i].loaded THEN isFFmpegLoading ELSE FALSE
    /\ exportError' = TRUE
    /\ runs' = [runs EXCEPT ![i].pc = "failed", ![i].engineFailed = TRUE]
    /\ timers' = timers \cup {i}
    /\ UNCHANGED <<timelineVars, renderVars, engineFiles, revision, isExporting,
                   exportProgress, ffmpeg>>

\* setTimeout(() => { if (!exportError) {...} }, 5000), exportError being
\* the value the run's closure captured
resetTimer(i) ==
    /\ revision \in ErrorCardRevisions
    /\ i \in timers
    /\ timers' = timers \ {i}
    /\ isExporting' = IF runs[i].errAtClick THEN isExporting ELSE FALSE
    /\ exportProgress' = IF runs[i].errAtClick THEN exportProgress ELSE 0
    /\ UNCHANGED <<timelineVars, renderVars, engineFiles, revision, exportError,
                   isFFmpegLoading, ffmpeg, runs>>

\* the error card's button in main
Dismiss ==
    /\ revision = "main"
    /\ exportError
    /\ exportError' = FALSE
    /\ UNCHANGED <<timelineVars, renderVars, engineFiles, revision, isExporting,
                   exportProgress, isFFmpegLoading, ffmpeg, runs, timers>>

\* the error card's button in p1r1
TryAgain ==
    /\ revision = "p1r1"
    /\ exportError
    /\ exportError' = FALSE
    /\ isExporting' = FALSE
    /\ exportProgress' = 0
    /\ UNCHANGED <<timelineVars, renderVars, engineFiles, revision, isFFmpegLoading,
                   ffmpeg, runs, timers>>

\* ---- p0r3 ----

\* the branch of handleExport taken once the source is fetched
MethodChoice(nz, nt) ==
    IF nz > 0 THEN "zoom" ELSE IF nt > 0 THEN "trim" ELSE "copy"

\* the Export button of p0r3; runs up to await fetch(videoFile)
handleExport_p0r3 ==
    /\ revision = "p0r3"
    /\ videoFile # 0 /\ ~isExporting /\ ~isFFmpegLoading
    /\ Len(runs) < MaxRuns
    /\ isExporting' = TRUE
    /\ exportProgress' = 0
    /\ runs' = Append(runs, NewRun("fetching"))
    /\ UNCHANGED <<timelineVars, renderVars, engineFiles, revision, exportError,
                   isFFmpegLoading, ffmpeg, timers>>

\* the source is fetched: the method is chosen; the copy method downloads
\* the source at once, the others ask loadFFmpeg for the engine
fetched_p0r3(i) ==
    /\ revision = "p0r3"
    /\ runs[i].pc = "fetching"
    /\ LET method == MethodChoice(runs[i].nz, runs[i].nt)
       IN  IF method = "copy"
           THEN /\ exportProgress' = 100
                /\ runs' = [runs EXCEPT ![i].pc = "succeeded",
                                        ![i].strategy = "copy",
                                        ![i].delivered = "original"]
                /\ timers' = timers \cup {i}
                /\ UNCHANGED isFFmpegLoading
           ELSE /\ runs' = [runs EXCEPT
                               ![i].pc = IF runs[i].loaded THEN "importing"
                                         ELSE "loading",
                               ![i].strategy = method]
                /\ isFFmpegLoading' =
                       IF runs[i].loaded THEN isFFmpegLoading ELSE TRUE
                /\ UNCHANGED <<exportProgress, timers>>
    /\ UNCHANGED <<timelineVars, renderVars, engineFiles, revision, isExporting,
                   exportError, ffmpeg>>

\* one of the CDN sources loads: loadFFmpeg returns the instance
loaded_p0r3(i) ==
    /\ revision = "p0r3"
    /\ runs[i].pc = "loading"
    /\ ffmpeg' = TRUE
    /\ isFFmpegLoading' = FALSE
    /\ runs' = [runs EXCEPT ![i].pc = "importing", ![i].loaded = TRUE]
    /\ UNCHANGED <<timelineVars, renderVars, engineFiles, revision, isExporting,
                   exportProgress, exportError, timers>>

\* exportWithFFmpeg / exportTrimWithFFmpeg: the import resolves and the
\* input file is written
imported_p0r3(i) ==
    /\ revision = "p0r3"
    /\ runs[i].pc = "importing"
    /\ exportProgress' = IF runs[i].strategy = "zoom" THEN 20 ELSE 30
    /\ runs' = [runs EXCEPT ![i].pc = "writing"]
    /\ UNCHANGED <<timelineVars, renderVars, engineFiles, revision, isExporting,
                   exportError, isFFmpegLoading, ffmpeg, timers>>

\* writeFile resolves and exec is called
written_p0r3(i) ==
    /\ revision = "p0r3"
    /\ runs[i].pc = "writing"
    /\ exportProgress' = IF runs[i].strategy = "zoom" THEN 40
                         ELSE exportProgress
    /\ runs' = [runs EXCEPT ![i].pc = "exec",
                            ![i].segments = PlanSegments(runs[i].trims)]
    /\ engineFiles' = engineFiles \cup {"input"}
    /\ UNCHANGED <<timelineVars, renderVars, revision, isExporting,
                   exportError, isFFmpegLoading, ffmpeg, timers>>

\* the progress listener exportWithFFmpeg installs
onProgress_p0r3(i, half) ==
    /\ revision = "p0r3"
    /\ runs[i].pc = "exec"
    /\ runs[i].strategy = "zoom"
    /\ exportProgress' = Min2(40 + 25 * half, 90)
    /\ UNCHANGED <<timelineVars, renderVars, engineFiles, revision, isExporting,
                   exportError, isFFmpegLoading, ffmpeg, runs, timers>>

\* exec resolves
executed_p0r3(i) ==
    /\ revision = "p0r3"
    /\ runs[i].pc = "exec"
    /\ exportProgress' = IF runs[i].strategy = "zoom" THEN 90 ELSE 80
    /\ runs' = [runs EXCEPT ![i].pc = "reading"]
    /\ engineFiles' = engineFiles \cup {"output"}
    /\ UNCHANGED <<timelineVars, renderVars, revision, isExporting,
                   exportError, isFFmpegLoading, ffmpeg, timers>>

\* readFile resolves and the engine's files are deleted
read_p0r3(i, out) ==
    /\ revision = "p0r3"
    /\ runs[i].pc = "reading"
    /\ runs' = [runs EXCEPT ![i].pc = "deleting", ![i].output = out]
    /\ UNCHANGED <<timelineVars, renderVars, engineFiles, revision, isExporting,
                   exportProgress, exportError, isFFmpegLoading, ffmpeg,
                   timers>>

\* the deletes resolve: the engine's output is downloaded
deleted_p0r3(i) ==
    /\ revision = "p0r3"
    /\ runs[i].pc = "deleting"
    /\ exportProgress' = 100
    /\ runs' = [runs EXCEPT ![i].pc = "succeeded", ![i].delivered = "engine"]
    /\ timers' = timers \cup {i}
    /\ engineFiles' = engineFiles \ {"input", "output"}
    /\ UNCHANGED <<timelineVars, renderVars, revision, isExporting,
                   exportError, isFFmpegLoading, ffmpeg>>

\* loadFFmpeg or an engine call rejects inside the inner try: the zoom
\* method goes on with exportWithCanvas, the trim method downloads the
\* source under the name copy_
engineFailed_p0r3(i) ==
    /\ revision = "p0r3"
    /\ runs[i].pc \in {"loading", "importing", "writing", "exec", "reading",
                       "deleting"}
    /\ isFFmpegLoading' = IF runs[i].pc = "loading" THEN FALSE
                          ELSE isFFmpegLoading
    /\ IF runs[i].strategy = "zoom"
       THEN /\ exportProgress' = 30
            /\ runs' = [runs EXCEPT ![i].pc = "canvas",
                                    ![i].strategy = "canvas",
                                    ![i].engineFailed = TRUE]
            /\ UNCHANGED timers
       ELSE /\ exportProgress' = 100
            /\ runs' = [runs EXCEPT ![i].pc = "succeeded",
                                    ![i].strategy = "copy",
                                    ![i].engineFailed = TRUE,
                                    ![i].delivered = "original"]
            /\ timers' = timers \cup {i}
    /\ UNCHANGED <<timelineVars, renderVars, engineFiles, revision, isExporting,
                   exportError, ffmpeg>>

\* the recorder stops: the canvas recording is downloaded
canvasDone_p0r3(i) ==
    /\ revision = "p0r3"
    /\ runs[i].pc = "canvas"
    /\ exportProgress' = 100
    /\ runs' = [runs EXCEPT ![i].pc = "succeeded", ![i].delivered = "canvas"]
    /\ timers' = timers \cup {i}
    /\ UNCHANGED <<timelineVars, renderVars, engineFiles, revision, isExporting,
                   exportError, isFFmpegLoading, ffmpeg>>

\* fetch or the canvas export rejects: the outer catch sets the status
exportFailed_p0r3(i) ==
    /\ revision = "p0r3"
    /\ runs[i].pc \in {"fetching", "canvas"}
    /\ runs' = [runs EXCEPT ![i].pc = "failed"]
    /\ timers' = timers \cup {i}
    /\ UNCHANGED <<timelineVars, renderVars, engineFiles, revision, isExporting,
                   exportProgress, exportError, isFFmpegLoading, ffmpeg>>

\* setTimeout(() => {...}, 3000)
resetTimer_p0r3(i) ==
    /\ revision = "p0r3"
    /\ i \in timers
    /\ timers' = timers \ {i}
    /\ isExporting' = FALSE
    /\ exportProgress' = 0
    /\ UNCHANGED <<timelineVars, renderVars, engineFiles, revision, exportError,
                   isFFmpegLoading, ffmpeg, runs>>

\* ---- the specification ----

\* an effect as handleAddZoomEffect makes it at time 0 of a long medium, and
\* a trim segment
ExportEffect ==
    [id |-> 1, startTime |-> 0, endTime |-> DefaultSpan,
     zoomLevel |-> DefaultZoomLevel,
     position |-> [x |-> DefaultPosition, y |-> DefaultPosition],
     name |-> 1]
ExportTrim == [start |-> OneSecond, end |-> 4 * OneSecond]
ExportTrimLater == [start |-> 5 * OneSecond, end |-> 6 * OneSecond]
ExportDuration == 8 * OneSecond

InitExportSpec ==
    /\ zoomEffects \in {<<>>, <<ExportEffect>>}
    /\ selectedZoomId = NoSelection
    /\ currentTime = 0
    /\ duration = ExportDuration
    /\ trimSegments \in {<<>>, <<ExportTrim>>, <<ExportTrimLater, ExportTrim>>}
    /\ cutPoints = <<>>
    /\ videoFile = 1
    /\ mediaDuration = ExportDuration
    /\ clock = 1
    /\ InitRender
    /\ revision \in Revisions
    /\ InitExport

NextExport ==
    \/ handleExport
    \/ \E i \in RunIds : importResolved(i)
    \/ \E i \in RunIds : ffmpegLoaded(i)
    \/ \E i \in RunIds : inputWritten(i)
    \/ \E i \in RunIds, half \in ProgressEvents : onProgress(i, half)
    \/ \E i \in RunIds : execDone(i)
    \/ \E i \in RunIds, out \in Outputs : outputRead(i, out)
    \/ \E i \in RunIds : cleanupDone(i)
    \/ \E i \in RunIds : exportFailed(i)
    \/ \E i \in RunIds : resetTimer(i)
    \/ Dismiss
    \/ TryAgain
    \/ handleExport_p0r3
    \/ \E i \in RunIds : fetched_p0r3(i)
    \/ \E i \in RunIds : loaded_p0r3(i)
    \/ \E i \in RunIds : imported_p0r3(i)
    \/ \E i \in RunIds : written_p0r3(i)
    \/ \E i \in RunIds, half \in ProgressEvents : onProgress_p0r3(i, half)
    \/ \E i \in RunIds : executed_p0r3(i)
    \/ \E i \in RunIds, out \in Outputs : read_p0r3(i, out)
    \/ \E i \in RunIds : deleted_p0r3(i)
    \/ \E i \in RunIds : engineFailed_p0r3(i)
    \/ \E i \in RunIds : canvasDone_p0r3(i)
    \/ \E i \in RunIds : exportFailed_p0r3(i)
    \/ \E i \in RunIds : resetTimer_p0r3(i)

SpecExport == InitExportSpec /\ [][NextExport]_vars

\* C2: in every reachable state at most one export run is in flight
\* (started and not yet at its terminal status), whatever the interleaving
\* of Export clicks, error-card clicks, reset timers and engine completions.
C2_AtMostOneInFlight ==
    Cardinality({i \in RunIds : runs[i].pc \in InFlight}) <= 1

\* C3: the step in which a run's failure is reported leaves isExporting
\* false and exportProgress 0, whether or not an earlier error was on
\* display when the run started.
C3_FailureResetsExport ==
    [][\A i \in RunIds :
          (runs[i].pc # "failed" /\ runs'[i].pc = "failed") =>
              (~isExporting' /\ exportProgress' = 0)]_vars

\* C4: a run over a timeline with zoom effects or trim segments whose
\* engine failed to load or to execute never ends as a success and hands
\* no file to download; once it is no longer in flight it has failed.
C4_EngineFailureFails ==
    \A i \in RunIds :
        (runs[i].engineFailed /\ (runs[i].nz > 0 \/ runs[i].nt > 0)) =>
            /\ runs[i].pc # "succeeded"
            /\ runs[i].delivered = "none"
            /\ runs[i].pc \notin InFlight => runs[i].pc = "failed"

\* the strategies the two counts admit: copy, trim-only, or the zoom path
\* (the engine's filter graph or the frame-by-frame render)
StrategiesFor(nz, nt) ==
    IF nz > 0 THEN {"zoom", "canvas"}
    ELSE IF nt > 0 THEN {"trim"} ELSE {"copy"}

\* C5: the strategy of a run is fixed by the two counts alone, (0,0) copy,
\* (0,>0) trim-only, (>0,any) the zoom path, whatever the engine's load or
\* execution outcome.
C5_StrategyFromCounts ==
    \A i \in RunIds :
        runs[i].strategy # "none" =>
            runs[i].strategy \in StrategiesFor(runs[i].nz, runs[i].nt)

----------------------------------------------------------------------------
(* Further properties of the timeline handlers (SpecTimeline).             *)

\* C11: every effect stored in the timeline has startTime < endTime, in
\* every reachable state, an effect added with the playhead at the end of
\* the media or with duration still 0 included.
C11_StartBeforeEnd ==
    \A i \in 1..Len(zoomEffects) :
        zoomEffects[i].startTime < zoomEffects[i].endTime

\* C12: every stored effect has 0 <= startTime and endTime <= the duration
\* of the media currently imported, an effect added between a new import
\* and its loadedmetadata event included.  Stated for the effect an add
\* stores while a media is imported, at the moment it is stored.
C12_WithinMedia ==
    [][(videoFile # 0 /\ Len(zoomEffects') = Len(zoomEffects) + 1) =>
          /\ 0 <= zoomEffects'[Len(zoomEffects')].startTime
          /\ zoomEffects'[Len(zoomEffects')].endTime <= mediaDuration']_vars

\* C13: a file input change that carries a file leaves the effect list, the
\* trim segments and the cut points empty and the selection null, whatever
\* the state before; one that carries no file leaves all four unchanged.
C13_ImportResets ==
    [][/\ (videoFile' # videoFile) =>
              /\ zoomEffects' = <<>>
              /\ trimSegments' = <<>>
              /\ cutPoints' = <<>>
              /\ selectedZoomId' = NoSelection
       /\ handleFileImport(NoFile) =>
              UNCHANGED <<zoomEffects, trimSegments, cutPoints,
                          selectedZoomId>>]_vars

\* C13 witness: a second file has just been imported (the duration is still
\* the previous media's) and the timeline is empty.
C13_Witness ==
    /\ videoFile = MaxFiles
    /\ duration # mediaDuration
    /\ duration # 0
    /\ currentTime = 0
    /\ zoomEffects = <<>> /\ trimSegments = <<>> /\ cutPoints = <<>>
    /\ selectedZoomId = NoSelection

\* C14: from any timeline state and playhead time, adding a zoom effect and
\* then deleting the id of the effect just created gives back the effect
\* list as it was before the add, contents and order.
C14_AddDeleteRoundTrip ==
    WithoutId(Append(zoomEffects, newZoomEffect), newZoomEffect.id) =
        zoomEffects

\* C15: for any timeline, any id and any partial field set u, updating
\* twice in a row with (id, u) leaves the timeline as updating once does.
C15_UpdateIdempotent ==
    \A id \in 1..MaxClock, u \in UpdateChoices :
        UpdatedEffects(UpdatedEffects(zoomEffects, id, u), id, u) =
            UpdatedEffects(zoomEffects, id, u)

\* C15 witness: an effect has been given zoomLevel 200 by an update, and the
\* same update applied again leaves the list as it is.
C15_Witness ==
    \E i \in 1..Len(zoomEffects) :
        /\ zoomEffects[i].zoomLevel = 200
        /\ UpdatedEffects(zoomEffects, zoomEffects[i].id, [zoomLevel |-> 200])
               = zoomEffects

\* no stored effect has this id
UnknownId(id) == \A i \in 1..Len(zoomEffects) : zoomEffects[i].id # id

\* C16: an update or a delete called with an id that no stored effect has
\* leaves the effect list, the selection, the trim segments and the cut
\* points unchanged.
C16_UnknownIdNoOp ==
    [][\A id \in 1..MaxClock :
          (/\ UnknownId(id)
           /\ \/ handleDeleteZoomEffect(id)
              \/ \E u \in UpdateChoices : handleUpdateZoomEffect(id, u)) =>
              UNCHANGED <<zoomEffects, selectedZoomId, trimSegments,
                          cutPoints>>]_vars

----------------------------------------------------------------------------
(* Further properties of the export runs (SpecExport).                     *)

\* C17: when the timeline holds several trim segments and no zoom effect,
\* the export plan extracts every one of them, in the order stored.
C17_AllSegmentsInOrder ==
    \A i \in RunIds :
        (runs[i].nz = 0 /\ runs[i].pc \in {"exec", "reading"}) =>
            runs[i].segments = runs[i].trims

\* C19: a run whose engine execution completed and whose output file has
\* zero size ends in failure: nothing is handed to download and no success
\* is reported.
C19_EmptyOutputFails ==
    \A i \in RunIds :
        runs[i].output = "empty" =>
            /\ runs[i].delivered = "none"
            /\ runs[i].pc \notin {"cleanup", "succeeded"}

\* C20: once an export run has ended, in success or in failure, and no
\* other run is in flight, the engine's filesystem holds none of the run's
\* temporary files.
C20_NoLeftoverFiles ==
    (/\ \E i \in RunIds : runs[i].pc \in {"succeeded", "failed"}
     /\ \A i \in RunIds : runs[i].pc \in {"succeeded", "failed"}) =>
        engineFiles = {}

----------------------------------------------------------------------------
(* SpecExportLive: the export runs under the scheduling the runtime        *)
(* guarantees.  An armed timer fires, and a promise awaited at any point   *)
(* other than the engine's exec settles (it resolves or it rejects); the   *)
(* engine's exec itself may never settle, and the user need not click.     *)

\* a step of run i at an await point other than exec
Settles(i) ==
    /\ runs[i].pc # "exec"
    /\ \/ importResolved(i) \/ ffmpegLoaded(i) \/ inputWritten(i)
       \/ \E out \in Outputs : outputRead(i, out)
       \/ cleanupDone(i) \/ exportFailed(i)
       \/ fetched_p0r3(i) \/ loaded_p0r3(i) \/ imported_p0r3(i)
       \/ written_p0r3(i)
       \/ \E out \in Outputs : read_p0r3(i, out)
       \/ deleted_p0r3(i) \/ engineFailed_p0r3(i) \/ canvasDone_p0r3(i)
       \/ exportFailed_p0r3(i)

\* a reset timer fires
TimerFires == \E i \in RunIds : resetTimer(i) \/ resetTimer_p0r3(i)

SpecExportLive ==
    /\ SpecExport
    /\ WF_vars(\E i \in RunIds : Settles(i))
    /\ WF_vars(TimerFires)

\* C18: no run waits forever on the engine's execution: a run whose exec
\* never completes is eventually abandoned and leaves the in-progress state.
C18_NoRunWaitsForever ==
    \A i \in 1..MaxRuns :
        []<>(~(i \in RunIds /\ runs[i].pc = "exec"))

----------------------------------------------------------------------------
(* SpecHandlers: the import, update and delete handlers applied to         *)
(* timelines drawn from a bounded universe (the lists that adds at one or  *)
(* several clock readings, seeks and deletes leave behind), with a media   *)
(* imported and its metadata loaded.                                       *)

\* the longest effect list drawn
MaxListed == 2

HandlerSpans == {<<0, DefaultSpan>>, <<4 * OneSecond, 8 * OneSecond>>}

\* the effects handleAddZoomEffect makes at the two playhead times, by id
HandlerEffects ==
    {[id |-> k, startTime |-> sp[1], endTime |-> sp[2],
      zoomLevel |-> DefaultZoomLevel,
      position |-> [x |-> DefaultPosition, y |-> DefaultPosition],
      name |-> 1] : k \in 1..MaxClock, sp \in HandlerSpans}

InitHandlers ==
    /\ zoomEffects \in SeqsUpTo(HandlerEffects, MaxListed)
    /\ selectedZoomId \in
           {NoSelection} \cup {zoomEffects[i].id : i \in 1..Len(zoomEffects)}
    /\ currentTime = 0
    /\ duration = 8 * OneSecond
    /\ trimSegments \in {<<>>, <<ExportTrim>>}
    /\ cutPoints \in {<<>>, <<4 * OneSecond>>}
    /\ videoFile = 1
    /\ mediaDuration = 8 * OneSecond
    /\ clock = 1
    /\ InitRender
    /\ revision = "main"
    /\ InitExport

NextHandlers ==
    \/ \E file \in MediaDurations \cup {NoFile} : handleFileImport(file)
    \/ \E id \in 1..MaxClock, updates \in UpdateChoices :
           handleUpdateZoomEffect(id, updates)
    \/ \E id \in 1..MaxClock : handleDeleteZoomEffect(id)

SpecHandlers == InitHandlers /\ [][NextHandlers]_vars

----------------------------------------------------------------------------
(* Filter-graph synthesis.  A graph is kept as what its text says: the     *)
(* segment expressions in emitted order (parts), each with the window of   *)
(* its trim=start=..:end=.., the zoom of its one crop expression and the   *)
(* number i of the label [v<i>] it produces; and the final stage, with the *)
(* labels it consumes (inputs) and, for a concatenation, its n.            *)

\* the revisions that synthesise a filter graph
FilterRevisions == {"main", "p0r1", "p0r2", "p0r3", "p1r3"}
\* those whose loop computes segmentEnd and skips (buildAdvancedZoomFilter
\* of part_000, buildZoomFilter of part_001)
SkippingRevisions == {"p0r3", "p1r3"}
\* those that push the concat stage whatever the number of segments
AlwaysConcatRevisions == {"p0r1", "p0r2"}

\* the position of stored effect i after [...zoomEffects].sort((a, b) =>
\* a.startTime - b.startTime): the sort is stable
SortedRank(effects, i) ==
    1 + Cardinality({j \in 1..Len(effects) :
            \/ effects[j].startTime < effects[i].startTime
            \/ effects[j].startTime = effects[i].startTime /\ j < i})

SortedByStart(effects) ==
    [k \in 1..Len(effects) |->
        effects[CHOOSE i \in 1..Len(effects) : SortedRank(effects, i) = k]]

\* nextEffect ? nextEffect.startTime : effect.endTime
segmentEnd(sorted, i) ==
    IF i < Len(sorted) THEN sorted[i + 1].startTime ELSE sorted[i].endTime

\* the end a trim=start=..:end=.. is given
TrimEnd(rev, sorted, i) ==
    IF rev \in SkippingRevisions THEN segmentEnd(sorted, i)
    ELSE sorted[i].endTime

\* nextEffect ? nextEffect.zoomLevel : zoomStart, where the loop reads it
ZoomEnd(rev, sorted, i) ==
    IF rev # "main" /\ rev # "p0r1" /\ i < Len(sorted)
    THEN sorted[i + 1].zoomLevel ELSE sorted[i].zoomLevel

\* the expression pushed for loop index i (i - 1 in the source's count)
SegmentPart(rev, sorted, i) ==
    [start |-> sorted[i].startTime,
     end |-> TrimEnd(rev, sorted, i),
     crop |-> [from |-> sorted[i].zoomLevel, to |-> ZoomEnd(rev, sorted, i)],
     label |-> i - 1]

\* if (segmentDuration <= 0) continue, in the revisions that have it
Skipped(rev, sorted, i) ==
    /\ rev \in SkippingRevisions
    /\ segmentEnd(sorted, i) - sorted[i].startTime <= 0

RECURSIVE EmittedParts(_, _, _)
EmittedParts(rev, sorted, i) ==
    IF i > Len(sorted) THEN <<>>
    ELSE IF Skipped(rev, sorted, i) THEN EmittedParts(rev, sorted, i + 1)
    ELSE <<SegmentPart(rev, sorted, i)>> \o EmittedParts(rev, sorted, i + 1)

\* concatInputs: the label of every pushed expression, in order
ConcatInputs(parts) == [j \in 1..Len(parts) |-> parts[j].label]

\* the stage pushed after the loop
FinalStage(rev, sorted, parts) ==
    IF rev \in AlwaysConcatRevisions
    THEN [final |-> "concat", inputs |-> ConcatInputs(parts),
          n |-> Len(sorted)]
    ELSE IF Len(parts) > 1
    THEN [final |-> "concat", inputs |-> ConcatInputs(parts),
          n |-> Len(parts)]
    ELSE IF Len(parts) = 1 \/ rev = "main"
    THEN [final |-> "copy", inputs |-> <<0>>, n |-> 0]
    ELSE [final |-> "none", inputs |-> <<>>, n |-> 0]

\* buildZoomFilterComplex / buildAdvancedZoomFilter / buildZoomFilter and
\* the inline loops of the first two revisions of part_000
BuildFilter(rev, effects) ==
    IF Len(effects) = 0 THEN NoGraph
    ELSE LET sorted == SortedByStart(effects)
             parts == EmittedParts(rev, sorted, 1)
             stage == FinalStage(rev, sorted, parts)
         IN  [parts |-> parts, final |-> stage.final,
              inputs |-> stage.inputs, n |-> stage.n]

\* the export builds the graph from the current effect list
buildZoomFilter ==
    /\ revision \in FilterRevisions
    /\ filterGraph' = BuildFilter(revision, zoomEffects)
    /\ UNCHANGED <<timelineVars, frameTime, enginesLoaded, mediaVars,
                   canvasVars, exportVars>>

(* SpecFilter: synthesis applied to effect lists drawn from the windows    *)
(* that adds at several playhead times leave (every window has its start   *)
(* before its end; two adds at one playhead time share a start).           *)

MaxFilterEffects == 3

FilterSpans == {<<0, DefaultSpan>>, <<0, 3 * OneSecond>>,
                <<2 * OneSecond, 7 * OneSecond>>,
                <<DefaultSpan, 8 * OneSecond>>}
FilterZooms == {DefaultZoomLevel, 200}

FilterLists ==
    {[i \in 1..Len(body) |->
        [id |-> i, startTime |-> body[i][1][1], endTime |-> body[i][1][2],
         zoomLevel |-> body[i][2],
         position |-> [x |-> DefaultPosition, y |-> DefaultPosition],
         name |-> i]] :
        body \in SeqsUpTo(FilterSpans \X FilterZooms, MaxFilterEffects)}

InitFilter ==
    /\ zoomEffects \in FilterLists
    /\ selectedZoomId = NoSelection
    /\ currentTime = 0
    /\ duration = 8 * OneSecond
    /\ trimSegments = <<>>
    /\ cutPoints = <<>>
    /\ videoFile = 1
    /\ mediaDuration = 8 * OneSecond
    /\ clock = 1
    /\ InitRender
    /\ revision \in FilterRevisions
    /\ InitExport

NextFilter == buildZoomFilter

SpecFilter == InitFilter /\ [][NextFilter]_vars

\* the graph of the current list has been built
GraphBuilt == filterGraph = BuildFilter(revision, zoomEffects)

\* C21: every stream label the final stage consumes is produced by exactly
\* one emitted segment expression.
C21_LabelsProduced ==
    GraphBuilt =>
        \A k \in 1..Len(filterGraph.inputs) :
            Cardinality({j \in 1..Len(filterGraph.parts) :
                filterGraph.parts[j].label = filterGraph.inputs[k]}) = 1

\* the effect list as synthesis takes it: in ascending startTime order
TakenInOrder == SortedByStart(zoomEffects)

\* C24: every emitted segment's window starts at its effect's startTime and
\* ends at the next effect's startTime when a next effect exists, and at
\* the effect's own endTime otherwise.
C24_WindowToNextStart ==
    GraphBuilt =>
        \A j \in 1..Len(filterGraph.parts) :
            LET part == filterGraph.parts[j]
                i == part.label + 1
            IN  /\ part.start = TakenInOrder[i].startTime
                /\ part.end = IF i < Len(TakenInOrder)
                              THEN TakenInOrder[i + 1].startTime
                              ELSE TakenInOrder[i].endTime

\* C25: no segment expression is emitted for an effect whose segment (from
\* its startTime to the next effect's startTime, or to its own endTime when
\* it is the last) has zero or negative duration, and every emitted window
\* has strictly positive length.
C25_NoEmptySegment ==
    GraphBuilt =>
        \A j \in 1..Len(filterGraph.parts) :
            LET part == filterGraph.parts[j]
                i == part.label + 1
            IN  /\ part.end - part.start > 0
                /\ (IF i < Len(TakenInOrder)
                    THEN TakenInOrder[i + 1].startTime
                    ELSE TakenInOrder[i].endTime) - TakenInOrder[i].startTime > 0

\* C26: the graph has a concatenation stage exactly when two or more
\* segment expressions are emitted, its n is then their number, and with
\* exactly one segment the graph has one crop expression and no concat.
C26_ConcatIffSeveral ==
    GraphBuilt =>
        /\ (filterGraph.final = "concat") <=> (Len(filterGraph.parts) >= 2)
        /\ filterGraph.final = "concat" =>
               filterGraph.n = Len(filterGraph.parts)

----------------------------------------------------------------------------
\* C29: selectedZoomId is either null or the id of an effect currently in
\* the timeline.
C29_SelectionListed ==
    \/ selectedZoomId = NoSelection
    \/ \E i \in 1..Len(zoomEffects) : zoomEffects[i].id = selectedZoomId

----------------------------------------------------------------------------
(* The frame-render export of the second revisions (handleExport /         *)
(* renderFrame of part_001, exportWithCanvas / renderFrame of part_000)    *)
(* on the media element it shares with the player controls.  In this       *)
(* section time is counted in frame intervals (1 / 30 s): frame k is the   *)
(* frame for time k.  A seek is asynchronous: assigning video.currentTime  *)
(* moves the position at once and the seeked event follows; a seek         *)
(* requested meanwhile replaces the one in progress.                       *)

CanvasRevisions == {"p1r2", "p0r2"}

\* the number of frames of the export range [0, duration)
MaxFrames == 3
\* draws after which the user stops seeking
MaxDrawn == 4
\* the 10 s of the skip buttons, in frame intervals
SkipSpan == 300

\* video.currentTime = t
SeekVideo(t) ==
    /\ videoPos' = t
    /\ videoSeeking' = TRUE

\* ctx.drawImage(video, ...) for frame time t: the picture sampled is the
\* one at the element's position
Drawn(t) == Append(frames, [t |-> t, at |-> videoPos])

\* Math.min(progress + 5, 90) with progress = (t - exportStart) /
\* exportDuration * 90
RecordingProgress(t) == Min2((t * 90) \div MaxFrames + 5, 90)

\* Math.round((frameCount / totalFrames) * 100)
CanvasProgress(n) == (2 * n * 100 + MaxFrames) \div (2 * MaxFrames)

\* handleExport of part_001 up to its first await; handleExport and
\* exportWithCanvas of part_000 up to the end of the first renderFrame call
startCanvasExport ==
    /\ revision \in CanvasRevisions
    /\ videoFile # 0
    /\ ~isExporting
    /\ recorder = "inactive"
    /\ isExporting' = TRUE
    /\ recorder' = "recording"
    /\ SeekVideo(0)
    /\ frames' = frames
    /\ IF revision = "p1r2"
       THEN /\ exportProgress' = 5
            /\ videoPlaying' = FALSE
            /\ renderLoop' = [IdleLoop EXCEPT !.pc = "starting"]
       ELSE /\ exportProgress' = CanvasProgress(0)
            /\ videoPlaying' = videoPlaying
            /\ renderLoop' = [IdleLoop EXCEPT !.pc = "seeking", !.handler = 0]
    /\ UNCHANGED <<timelineVars, frameTime, engineVars, isPlaying, revision,
                   exportError, isFFmpegLoading, ffmpeg, runs, timers,
                   engineFiles>>

\* renderFrame of part_001 up to its await, entered with the loop at time t
renderFrame_p1r2(t) ==
    IF t >= duration
    THEN /\ recorder' = "stopped"
         /\ renderLoop' = [renderLoop EXCEPT !.pc = "done", !.timers = 0]
         /\ UNCHANGED <<videoPos>>
         /\ videoSeeking' = FALSE
    ELSE /\ SeekVideo(t)
         /\ renderLoop' = [renderLoop EXCEPT !.pc = "seeking", !.timers = 0]
         /\ UNCHANGED recorder

\* the seeked event on the shared element, part_001: the listener of the
\* pending await, if any, resolves it and the loop goes on
seeked_p1r2 ==
    /\ revision = "p1r2"
    /\ videoSeeking
    /\ CASE renderLoop.pc = "starting" ->
              /\ renderFrame_p1r2(renderLoop.time)
              /\ UNCHANGED <<frames, exportProgress>>
         [] renderLoop.pc = "seeking" ->
              /\ frames' = Drawn(renderLoop.time)
              /\ exportProgress' = RecordingProgress(renderLoop.time)
              /\ renderLoop' = [renderLoop EXCEPT !.pc = "waiting",
                                                  !.time = @ + 1,
                                                  !.timers = 1]
              /\ videoSeeking' = FALSE
              /\ UNCHANGED <<videoPos, recorder>>
         [] OTHER ->
              /\ videoSeeking' = FALSE
              /\ UNCHANGED <<videoPos, recorder, renderLoop, frames,
                             exportProgress>>
    /\ UNCHANGED <<timelineVars, frameTime, engineVars, videoPlaying,
                   isPlaying, revision, isExporting, exportError,
                   isFFmpegLoading, ffmpeg, runs, timers, engineFiles>>

\* setTimeout(renderFrame, 1000 / frameRate) fires, part_001
renderTimer_p1r2 ==
    /\ revision = "p1r2"
    /\ renderLoop.pc = "waiting"
    /\ renderFrame_p1r2(renderLoop.time)
    /\ UNCHANGED <<timelineVars, frameTime, engineVars, videoPlaying,
                   isPlaying, frames, exportVars>>

\* the seeked event, part_000: video.onseeked stays assigned, so every
\* seeked event runs the handler of the last renderFrame call
seeked_p0r2 ==
    /\ revision = "p0r2"
    /\ videoSeeking
    /\ videoSeeking' = FALSE
    /\ IF renderLoop.handler # NoHandler
       THEN /\ frames' = Drawn(renderLoop.handler)
            /\ renderLoop' = [renderLoop EXCEPT !.pc = "waiting",
                                                !.time = @ + 1,
                                                !.timers = @ + 1]
       ELSE UNCHANGED <<frames, renderLoop>>
    /\ UNCHANGED <<timelineVars, frameTime, engineVars, videoPos,
                   videoPlaying, isPlaying, recorder, exportVars>>

\* setTimeout(renderFrame, 1000 / fps) fires, part_000: one renderFrame call
renderTimer_p0r2 ==
    /\ revision = "p0r2"
    /\ renderLoop.timers > 0
    /\ IF renderLoop.time >= duration
       THEN /\ recorder' = "stopped"
            /\ renderLoop' = [renderLoop EXCEPT !.timers = @ - 1,
                                  !.pc = IF @ \in {"finished", "reset"}
                                        THEN @ ELSE "done"]
            /\ UNCHANGED <<videoPos, videoSeeking, exportProgress>>
       ELSE /\ exportProgress' = CanvasProgress(renderLoop.time)
            /\ SeekVideo(renderLoop.time)
            /\ renderLoop' = [renderLoop EXCEPT !.pc = "seeking",
                                                !.handler = renderLoop.time,
                                                !.timers = @ - 1]
            /\ UNCHANGED recorder
    /\ UNCHANGED <<timelineVars, frameTime, engineVars, videoPlaying,
                   isPlaying, frames, revision, isExporting, exportError,
                   isFFmpegLoading, ffmpeg, runs, timers, engineFiles>>

\* mediaRecorder.onstop: the recording is delivered (part_001 sets the
\* progress to 95 and then 100 on the way) and the reset timer is set
recorderStopped ==
    /\ revision \in CanvasRevisions
    /\ recorder = "stopped"
    /\ renderLoop.pc = "done"
    /\ renderLoop' = [renderLoop EXCEPT !.pc = "finished"]
    /\ exportProgress' = IF revision = "p1r2" THEN 100 ELSE exportProgress
    /\ UNCHANGED <<timelineVars, frameTime, engineVars, mediaVars, frames,
                   recorder, revision, isExporting, exportError,
                   isFFmpegLoading, ffmpeg, runs, timers, engineFiles>>

\* the reset timer set after the delivery fires
canvasResetTimer ==
    /\ revision \in CanvasRevisions
    /\ renderLoop.pc = "finished"
    /\ renderLoop' = [renderLoop EXCEPT !.pc = "reset"]
    /\ isExporting' = FALSE
    /\ exportProgress' = 0
    /\ UNCHANGED <<timelineVars, frameTime, engineVars, mediaVars, frames,
                   recorder, revision, exportError, isFFmpegLoading, ffmpeg,
                   runs, timers, engineFiles>>

\* handleSeek of the player controls (the slider): enabled whenever a
\* media is imported, export or not
handleSeekShared(t) ==
    /\ revision \in CanvasRevisions
    /\ videoFile # 0
    /\ Len(frames) < MaxDrawn
    /\ SeekVideo(t)
    /\ currentTime' = t
    /\ UNCHANGED <<zoomEffects, selectedZoomId, duration, trimSegments,
                   cutPoints, videoFile, mediaDuration, clock, frameTime,
                   engineVars, videoPlaying, isPlaying, canvasVars,
                   exportVars>>

\* the skip buttons: handleSeek([Math.max(0, currentTime - 10)]) and
\* handleSeek([Math.min(duration, currentTime + 10)])
skipBack == handleSeekShared(Max2(0, currentTime - SkipSpan))
skipForward == handleSeekShared(Min2(duration, currentTime + SkipSpan))

\* handlePlayPause
handlePlayPause ==
    /\ revision \in CanvasRevisions
    /\ videoFile # 0
    /\ videoPlaying' = ~isPlaying
    /\ isPlaying' = ~isPlaying
    /\ UNCHANGED <<timelineVars, frameTime, engineVars, videoPos,
                   videoSeeking, canvasVars, exportVars>>

\* playback advances by one frame interval and timeupdate is handled; a
\* seek in progress holds playback
playback ==
    /\ revision \in CanvasRevisions
    /\ videoPlaying
    /\ ~videoSeeking
    /\ videoPos < duration
    /\ videoPos' = videoPos + 1
    /\ currentTime' = videoPos + 1
    /\ UNCHANGED <<zoomEffects, selectedZoomId, duration, trimSegments,
                   cutPoints, videoFile, mediaDuration, clock, frameTime,
                   engineVars, videoSeeking, videoPlaying, isPlaying,
                   canvasVars, exportVars>>

InitCanvas ==
    /\ zoomEffects = <<>>
    /\ selectedZoomId = NoSelection
    /\ currentTime = 0
    /\ duration = MaxFrames
    /\ trimSegments = <<>>
    /\ cutPoints = <<>>
    /\ videoFile = 1
    /\ mediaDuration = MaxFrames
    /\ clock = 1
    /\ InitRender
    /\ revision \in CanvasRevisions
    /\ InitExport

NextCanvas ==
    \/ startCanvasExport
    \/ seeked_p1r2
    \/ renderTimer_p1r2
    \/ seeked_p0r2
    \/ renderTimer_p0r2
    \/ recorderStopped
    \/ canvasResetTimer
    \/ \E t \in 1..(MaxFrames - 1) : handleSeekShared(t)
    \/ skipBack
    \/ skipForward
    \/ handlePlayPause
    \/ playback

SpecCanvas == InitCanvas /\ [][NextCanvas]_vars

\* C23: every frame drawn for output time t is sampled while the shared
\* media element is positioned at t.
C23_FrameSampledAtItsTime ==
    \A k \in 1..Len(frames) : frames[k].at = frames[k].t

\* C27: the output frame times are strictly increasing, at most one
\* seek-then-draw step is scheduled at a time, and the recorder is stopped
\* only after the last frame of the export range has been drawn.
C27_FramesInOrderOneAtATime ==
    /\ \A k \in 1..Len(frames) - 1 : frames[k].t < frames[k + 1].t
    /\ renderLoop.timers <= 1
    /\ recorder = "stopped" =>
           \E k \in 1..Len(frames) : frames[k].t = duration - 1

----------------------------------------------------------------------------
(* The export of the third revision in part_001: handleExport, loadFFmpeg, *)
(* exportWithFFmpeg, exportWithCanvas, exportSimple, completeExport.  All  *)
(* of them are closures of the render in which Export was clicked, so the  *)
(* ffmpeg that loadFFmpeg tests is the one of that render (runs[i].loaded) *)
(* however often it is called during the run.                              *)

\* if (ffmpeg) return ffmpeg, as a call made by run i sees it
HoldsEngine(i) == runs[i].loaded

\* where the run goes once its loadFFmpeg call is made from exportCanvas or
\* exportSimple: straight on with the held instance, or into a load
SecondLoadPc(i) == IF HoldsEngine(i) THEN "converting" ELSE "loadingAgain"

\* handleExport after its loadFFmpeg call has returned instance (TRUE) or
\* null (FALSE): the branch taken, up to its first await
DispatchPc(i, instance) ==
    IF instance /\ runs[i].nz > 0 THEN "engine"
    ELSE IF runs[i].nz > 0 THEN "canvas"
    ELSE IF runs[i].nt > 0 THEN SecondLoadPc(i)
    ELSE "completing"

DispatchProgress(i, instance) ==
    IF instance /\ runs[i].nz > 0 THEN 10
    ELSE IF runs[i].nz > 0 THEN 30
    ELSE IF runs[i].nt > 0 THEN 50
    ELSE 100

\* the Export button, up to await fetch(videoFile)
handleExport_p1r3 ==
    /\ revision = "p1r3"
    /\ videoFile # 0 /\ ~isExporting /\ ~isFFmpegLoading
    /\ Len(runs) < MaxRuns
    /\ isExporting' = TRUE
    /\ exportProgress' = 0
    /\ runs' = Append(runs, NewRun("fetching"))
    /\ UNCHANGED <<timelineVars, renderVars, engineFiles, revision,
                   exportError, isFFmpegLoading, ffmpeg, timers>>

\* the blob arrives and loadFFmpeg is called: it returns the held instance
\* and handleExport dispatches, or it starts a load
fetched_p1r3(i) ==
    /\ revision = "p1r3"
    /\ i \in RunIds /\ runs[i].pc = "fetching"
    /\ IF HoldsEngine(i)
       THEN /\ runs' = [runs EXCEPT ![i].pc = DispatchPc(i, TRUE)]
            /\ exportProgress' = DispatchProgress(i, TRUE)
            /\ isFFmpegLoading' = (DispatchPc(i, TRUE) = "loadingAgain")
       ELSE /\ runs' = [runs EXCEPT ![i].pc = "loading"]
            /\ isFFmpegLoading' = TRUE
            /\ UNCHANGED exportProgress
    /\ UNCHANGED <<timelineVars, renderVars, engineFiles, revision,
                   isExporting, exportError, ffmpeg, timers>>

\* new FFmpeg() and ffmpegInstance.load(...) settle inside the first
\* loadFFmpeg call: setFfmpeg(ffmpegInstance), or the alert and null; then
\* handleExport dispatches
loadSettled_p1r3(i, ok) ==
    /\ revision = "p1r3"
    /\ i \in RunIds /\ runs[i].pc = "loading"
    /\ enginesLoaded' = IF ok THEN enginesLoaded + 1 ELSE enginesLoaded
    /\ ffmpeg' = (ffmpeg \/ ok)
    /\ runs' = [runs EXCEPT ![i].pc = DispatchPc(i, ok),
                            ![i].engineFailed = ~ok]
    /\ exportProgress' = DispatchProgress(i, ok)
    /\ isFFmpegLoading' = (DispatchPc(i, ok) = "loadingAgain")
    /\ UNCHANGED <<timelineVars, frameTime, filterGraph, mediaVars,
                   canvasVars, engineFiles, revision, isExporting,
                   exportError, timers>>

\* exportWithFFmpeg: writeFile resolves, the filter is built and exec starts
written_p1r3(i) ==
    /\ revision = "p1r3"
    /\ i \in RunIds /\ runs[i].pc = "engine"
    /\ engineFiles' = engineFiles \cup {"input"}
    /\ filterGraph' = BuildFilter(revision, zoomEffects)
    /\ exportProgress' = 40
    /\ runs' = [runs EXCEPT ![i].pc = "executing",
                            ![i].strategy = "engine",
                            ![i].segments = PlanSegments(runs[i].trims)]
    /\ UNCHANGED <<timelineVars, frameTime, enginesLoaded, mediaVars,
                   canvasVars, revision, isExporting, exportError,
                   isFFmpegLoading, ffmpeg, timers>>

\* the progress listener: Math.min(40 + progress * 50, 90)
onProgress_p1r3(i, half) ==
    /\ revision = "p1r3"
    /\ i \in RunIds /\ runs[i].pc = "executing"
    /\ exportProgress' = Min2(40 + half * 25, 90)
    /\ UNCHANGED <<timelineVars, renderVars, engineFiles, revision,
                   isExporting, exportError, isFFmpegLoading, ffmpeg, runs,
                   timers>>

\* exec, readFile, the download and the two deleteFile calls resolve, and
\* completeExport runs
executed_p1r3(i) ==
    /\ revision = "p1r3"
    /\ i \in RunIds /\ runs[i].pc = "executing"
    /\ engineFiles' = engineFiles \ {"input", "output"}
    /\ exportProgress' = 100
    /\ runs' = [runs EXCEPT ![i].pc = "completing",
                            ![i].delivered = "engine"]
    /\ UNCHANGED <<timelineVars, renderVars, revision, isExporting,
                   exportError, isFFmpegLoading, ffmpeg, timers>>

\* fetch, or a call on the engine inside exportWithFFmpeg, rejects: the
\* catch of handleExport
exportFailed_p1r3(i) ==
    /\ revision = "p1r3"
    /\ i \in RunIds /\ runs[i].pc \in {"fetching", "engine", "executing"}
    /\ isExporting' = FALSE
    /\ exportProgress' = 0
    /\ runs' = [runs EXCEPT ![i].pc = "failed"]
    /\ UNCHANGED <<timelineVars, renderVars, engineFiles, revision,
                   exportError, isFFmpegLoading, ffmpeg, timers>>

\* exportWithCanvas: processVideoWithCanvas resolves and loadFFmpeg is
\* called for the conversion
canvasProcessed_p1r3(i) ==
    /\ revision = "p1r3"
    /\ i \in RunIds /\ runs[i].pc = "canvas"
    /\ exportProgress' = 80
    /\ runs' = [runs EXCEPT ![i].pc = SecondLoadPc(i),
                            ![i].strategy = "canvas"]
    /\ isFFmpegLoading' = ~HoldsEngine(i)
    /\ UNCHANGED <<timelineVars, renderVars, engineFiles, revision,
                   isExporting, exportError, ffmpeg, timers>>

\* the loadFFmpeg call of exportWithCanvas / exportSimple settles: a new
\* instance loaded and stored, or null and the unconverted download
loadAgainSettled_p1r3(i, ok) ==
    /\ revision = "p1r3"
    /\ i \in RunIds /\ runs[i].pc = "loadingAgain"
    /\ enginesLoaded' = IF ok THEN enginesLoaded + 1 ELSE enginesLoaded
    /\ ffmpeg' = (ffmpeg \/ ok)
    /\ isFFmpegLoading' = FALSE
    /\ runs' = [runs EXCEPT
                  ![i].pc = IF ok THEN "converting" ELSE "completing",
                  ![i].delivered = IF ok THEN @ ELSE "original"]
    /\ exportProgress' = IF ok THEN exportProgress ELSE 100
    /\ UNCHANGED <<timelineVars, frameTime, filterGraph, mediaVars,
                   canvasVars, engineFiles, revision, isExporting,
                   exportError, timers>>

\* the engine section of exportWithCanvas / exportSimple ends: converted
\* and cleaned up, or thrown and caught with the unconverted download;
\* completeExport either way
converted_p1r3(i, ok) ==
    /\ revision = "p1r3"
    /\ i \in RunIds /\ runs[i].pc = "converting"
    /\ engineFiles' = IF ok THEN engineFiles \ {"input", "output"}
                      ELSE engineFiles \cup {"input"}
    /\ exportProgress' = 100
    /\ runs' = [runs EXCEPT
                  ![i].pc = "completing",
                  ![i].segments = PlanSegments(runs[i].trims),
                  ![i].delivered = IF ok THEN "engine" ELSE "original"]
    /\ UNCHANGED <<timelineVars, renderVars, revision, isExporting,
                   exportError, isFFmpegLoading, ffmpeg, timers>>

\* the timer of completeExport fires
resetTimer_p1r3(i) ==
    /\ revision = "p1r3"
    /\ i \in RunIds /\ runs[i].pc = "completing"
    /\ isExporting' = FALSE
    /\ exportProgress' = 0
    /\ runs' = [runs EXCEPT ![i].pc = "succeeded"]
    /\ UNCHANGED <<timelineVars, renderVars, engineFiles, revision,
                   exportError, isFFmpegLoading, ffmpeg, timers>>

(* SpecEngine: export runs of that revision, one after the other, on a     *)
(* timeline with or without effects and trims.                             *)

InitEngine ==
    /\ zoomEffects \in {<<>>, <<ExportEffect>>}
    /\ selectedZoomId = NoSelection
    /\ currentTime = 0
    /\ duration = ExportDuration
    /\ trimSegments \in {<<>>, <<ExportTrim>>}
    /\ cutPoints = <<>>
    /\ videoFile = 1
    /\ mediaDuration = ExportDuration
    /\ clock = 1
    /\ InitRender
    /\ revision = "p1r3"
    /\ InitExport

NextEngine ==
    \/ handleExport_p1r3
    \/ \E i \in RunIds : fetched_p1r3(i)
    \/ \E i \in RunIds, ok \in BOOLEAN : loadSettled_p1r3(i, ok)
    \/ \E i \in RunIds : written_p1r3(i)
    \/ \E i \in RunIds, half \in ProgressEvents : onProgress_p1r3(i, half)
    \/ \E i \in RunIds : executed_p1r3(i)
    \/ \E i \in RunIds : exportFailed_p1r3(i)
    \/ \E i \in RunIds : canvasProcessed_p1r3(i)
    \/ \E i \in RunIds, ok \in BOOLEAN : loadAgainSettled_p1r3(i, ok)
    \/ \E i \in RunIds, ok \in BOOLEAN : converted_p1r3(i, ok)
    \/ \E i \in RunIds : resetTimer_p1r3(i)

SpecEngine == InitEngine /\ [][NextEngine]_vars

\* C28: at most one engine instance is ever created and loaded.
C28_OneEngine == enginesLoaded <= 1

----------------------------------------------------------------------------
\* C22: every export run that has reached a terminal status and whose reset
\* timer has fired is, unless a later run has been started meanwhile,
\* eventually followed by a state with isExporting false and
\* exportProgress 0.
C22_RunEventuallyReset ==
    \A i \in 1..MaxRuns :
        (/\ i = Len(runs)
         /\ runs[i].pc \in {"succeeded", "failed"}
         /\ i \notin timers)
            ~> (~isExporting /\ exportProgress = 0)

\* C30: while the latest run of main / p1r1 is in flight, no stage update
\* of the run and no progress callback of the engine lowers exportProgress.
C30_ProgressNeverDecreases ==
    [][(/\ revision \in ErrorCardRevisions
        /\ Len(runs) > 0
        /\ Len(runs') = Len(runs)
        /\ runs[Len(runs)].pc \in InFlight
        /\ timers' = timers)
           => exportProgress' >= exportProgress]_vars

====
